---- MODULE Spec2Model ----
(***************************************************************************)
(* A model of the Argparser command-line parser (src/src/Argparser.h) and  *)
(* of the way bud (src/src/bud.c) uses it.                                 *)
(*                                                                         *)
(* A token is a sequence of one-character strings, so that the parser's    *)
(* character tests (arg[0], arg[1], strlen, strncmp) are computed and not  *)
(* assumed.  The caller's argument vector is a block of memory cells `vec` *)
(* indexed from 0; the parser reads and writes it in place.                *)
(*                                                                         *)
(* A run draws its option table and its command lines from a profile:      *)
(* "bud" is bud's own table; the other profiles are tables a caller can    *)
(* build with the ARGPARSER_OPT_* macros (INTEGER, FLOAT and STRING        *)
(* options, a duplicated short name, long names that extend one another),  *)
(* each with a specification of its own.                                   *)
(***************************************************************************)
EXTENDS Integers, Sequences, FiniteSets, TLC

\* ------------------------------------------------------------------ bounds
\* Most tokens after the invocation name in one command line.
MaxArgs == 3
\* Most calls of Argparser_parse in one run of the process.
MaxParses == 2
\* The width in bits of the C type int, and of long.  The widths are scaled
\* down from the 32 and 64 bits of an LP64 build (long twice as wide as
\* int), so that the numbers stay small; the numerals of the command lines
\* are scaled with them.
IntBits == 8
LongBits == 16

\* ------------------------------------------------------------- C constants
\* The null pointer (an absent token, value, name, destination, callback).
Null == <<"NULL">>
\* The character '\0': an absent short name, the end of a C string.
NUL == "NUL"
\* The content of a memory cell outside the caller's vector.
Junk == <<"JUNK">>

\* enum ArgparserOptionType
ARGPARSER_TYPE_END == "END"
ARGPARSER_TYPE_GROUP == "GROUP"
ARGPARSER_TYPE_BOOLEAN == "BOOLEAN"
ARGPARSER_TYPE_INTEGER == "INTEGER"
ARGPARSER_TYPE_FLOAT == "FLOAT"
ARGPARSER_TYPE_STRING == "STRING"

\* A callback that is not set, the library's help callback.
NoCallback == "NULL"
Argparser_exitForHelp == "Argparser_exitForHelp"
\* A callback of the caller's that returns.
NoteOption == "NoteOption"
\* A destination that is not set.
NoValue == "NULL"

\* The ARGPARSER_OPT_* macros: one descriptor of the option table.
Option(type, shortName, longName, value, callback) ==
    [type |-> type, shortName |-> shortName, longName |-> longName,
     value |-> value, callback |-> callback]
ARGPARSER_OPT_BOOL(shortName, longName, value) ==
    Option(ARGPARSER_TYPE_BOOLEAN, shortName, longName, value, NoCallback)
ARGPARSER_OPT_INT(shortName, longName, value) ==
    Option(ARGPARSER_TYPE_INTEGER, shortName, longName, value, NoCallback)
ARGPARSER_OPT_FLOAT(shortName, longName, value) ==
    Option(ARGPARSER_TYPE_FLOAT, shortName, longName, value, NoCallback)
ARGPARSER_OPT_STRING(shortName, longName, value) ==
    Option(ARGPARSER_TYPE_STRING, shortName, longName, value, NoCallback)
ARGPARSER_OPT_BOOL_CALLBACK(shortName, longName, value, callback) ==
    Option(ARGPARSER_TYPE_BOOLEAN, shortName, longName, value, callback)
ARGPARSER_OPT_INT_CALLBACK(shortName, longName, value, callback) ==
    Option(ARGPARSER_TYPE_INTEGER, shortName, longName, value, callback)
ARGPARSER_OPT_HELP ==
    Option(ARGPARSER_TYPE_BOOLEAN, "h", <<"h","e","l","p">>, NoValue,
           Argparser_exitForHelp)
ARGPARSER_OPT_END ==
    Option(ARGPARSER_TYPE_END, NUL, Null, NoValue, NoCallback)

\* The option table bud's main() hands to Argparser_init.
BudTable ==
    << ARGPARSER_OPT_HELP,
       ARGPARSER_OPT_BOOL("c", <<"c","o","l","o","r">>, "colorOutput"),
       ARGPARSER_OPT_BOOL("i", <<"i","n","v","e","r","s","e">>, "inverse"),
       ARGPARSER_OPT_BOOL(NUL, <<"n","o","c","h","a","r","t">>, "nochart"),
       ARGPARSER_OPT_BOOL(NUL, <<"n","o","h","e","a","d","e","r">>, "noheader"),
       ARGPARSER_OPT_BOOL(NUL, <<"n","o","t","o","t","a","l">>, "nototal"),
       ARGPARSER_OPT_END >>

\* A table with one INTEGER option, as a caller builds it with
\* ARGPARSER_OPT_INT.
IntegerTable ==
    << ARGPARSER_OPT_INT("n", <<"n","u","m">>, "num"),
       ARGPARSER_OPT_END >>

\* A table with a STRING option followed by two BOOLEAN options that share
\* the short name `i`.
ValueTable ==
    << ARGPARSER_OPT_STRING("s", <<"s","t","r">>, "str"),
       ARGPARSER_OPT_BOOL("i", <<"i","n","v","e","r","s","e">>, "inverse"),
       ARGPARSER_OPT_BOOL("i", Null, "invert"),
       ARGPARSER_OPT_END >>

\* A table whose long names extend one another (color, colors, colormap),
\* with one option of every kind that takes a value.
LongTable ==
    << ARGPARSER_OPT_BOOL("c", <<"c","o","l","o","r">>, "color"),
       ARGPARSER_OPT_BOOL(NUL, <<"c","o","l","o","r","s">>, "colors"),
       ARGPARSER_OPT_STRING(NUL, <<"c","o","l","o","r","m","a","p">>, "colormap"),
       ARGPARSER_OPT_INT(NUL, <<"n","u","m">>, "num"),
       ARGPARSER_OPT_FLOAT(NUL, <<"r","a","t","i","o">>, "ratio"),
       ARGPARSER_OPT_END >>

\* A table whose options have callbacks: the help option, a BOOLEAN and an
\* INTEGER option with a destination, an INTEGER option without one.
CallbackTable ==
    << ARGPARSER_OPT_HELP,
       ARGPARSER_OPT_BOOL_CALLBACK("v", <<"v","e","r","b","o","s","e">>, "verbose", NoteOption),
       ARGPARSER_OPT_INT_CALLBACK("n", <<"n","u","m">>, "num", NoteOption),
       ARGPARSER_OPT_INT_CALLBACK("k", <<"c","o","u","n","t">>, NoValue, NoteOption),
       ARGPARSER_OPT_END >>

\* argv[0], the invocation name: never classified.
Prog == <<"b","u","d">>

\* ------------------------------------------------------------ input tokens
TFile == <<"f">>
TDash == <<"-">>
TZero == <<"0">>
TShortC == <<"-","c">>
TShortH == <<"-","h">>
TShortZ == <<"-","z">>
TShortCEq1 == <<"-","c","=","1">>
TColor == <<"-","-","c","o","l","o","r">>
TColorEq1 == <<"-","-","c","o","l","o","r","=","1">>
TColorEq0 == <<"-","-","c","o","l","o","r","=","0">>
TColorEqM == <<"-","-","c","o","l","o","r","=","m">>
THelp == <<"-","-","h","e","l","p">>
TTerm == <<"-","-">>
TShortCI == <<"-","c","i">>
TShortCZI == <<"-","c","z","i">>
TOne == <<"1">>
TTwelve == <<"1","2">>
TAi == <<"a","i">>
TShortN == <<"-","n">>
TShortS == <<"-","s">>
TShortI == <<"-","i">>
TNumEq12 == <<"-","-","n","u","m","=","1","2">>
TNumEq12abc == <<"-","-","n","u","m","=","1","2","a","b","c">>
TNumEqNone == <<"-","-","n","u","m","=">>
TNumEq300 == <<"-","-","n","u","m","=","3","0","0">>
TNumEq99999 == <<"-","-","n","u","m","=","9","9","9","9","9">>
TInverse == <<"-","-","i","n","v","e","r","s","e">>
TColorful == <<"-","-","c","o","l","o","r","f","u","l">>
TColors == <<"-","-","c","o","l","o","r","s">>
TColormap == <<"-","-","c","o","l","o","r","m","a","p">>
TColormapEqAB == <<"-","-","c","o","l","o","r","m","a","p","=","a","=","b">>
TNum == <<"-","-","n","u","m">>
TRatio == <<"-","-","r","a","t","i","o">>
THelpEqG == <<"-","-","h","e","l","p","=","g">>
TShortV == <<"-","v">>
TShortK == <<"-","k">>
TCountEqAbc == <<"-","-","c","o","u","n","t","=","a","b","c">>
TRatioEq15 == <<"-","-","r","a","t","i","o","=","1",".","5">>

\* The command lines are drawn from a profile: its tokens and its tables.
TokensOf(p) ==
    CASE p = "bud" ->
           {TFile, TDash, TZero, TShortC, TShortH, TShortZ, TShortCEq1,
            TColor, TColorEq1, TColorEq0, TColorEqM, THelp, TTerm}
      [] p = "life" -> {TFile, TShortC, TColor, TTerm}
      [] p = "flags" ->
           {TFile, TZero, TShortC, TShortCI, TShortCZI, TColor, TTerm}
      [] p = "integer" ->
           {TTwelve, TShortN, TNumEq12, TNumEq12abc, TNumEqNone, TNumEq300,
            TNumEq99999, TTerm}
      [] p = "value" -> {TAi, TOne, TShortS, TShortI, TInverse, TTerm}
      [] p = "callback" ->
           {TFile, TShortH, THelpEqG, TShortV, TShortK, TCountEqAbc,
            TNumEq12, TNumEq12abc, TTerm}
      [] p = "long" ->
           {TFile, TShortC, TColorful, TColors, TColormap, TColormapEqAB,
            TNum, TRatio, TRatioEq15, TTerm}
TablesOf(p) ==
    CASE p \in {"bud", "life", "flags"} -> {BudTable}
      [] p = "integer" -> {IntegerTable}
      [] p = "value" -> {ValueTable}
      [] p = "long" -> {LongTable}
      [] p = "callback" -> {CallbackTable}

\* The destinations (program variables) the tables of a profile write.
DestsOf(p) ==
    UNION {{t[i].value : i \in 1..Len(t)} : t \in TablesOf(p)} \ {NoValue}

\* What a destination holds before any parse: a null pointer for a string,
\* 0.0 for a float, 0 for an int or a bool (bud's globals are zeroed).
ZeroOf(p, d) ==
    LET t == CHOOSE t \in TablesOf(p) : \E i \in 1..Len(t) : t[i].value = d
        i == CHOOSE i \in 1..Len(t) : t[i].value = d
    IN  CASE t[i].type = ARGPARSER_TYPE_STRING -> Null
          [] t[i].type = ARGPARSER_TYPE_FLOAT -> [mant |-> 0, exp |-> 0]
          [] OTHER -> 0

\* Every command line of at most MaxArgs tokens.
Vectors(toks) == UNION {[1..n -> toks] : n \in 0..MaxArgs}

\* The highest memory cell a run can write (see ParseFinish).
MemTop == MaxParses * MaxArgs + 1

\* ------------------------------------------------------------------- state
VARIABLES
    profile,          \* which tokens and tables the run draws from
    cmdline,          \* the caller's command line, without argv[0]
    initialized,      \* the handle's memory was set by Argparser_init
    valid,            \* Argparser.valid
    options,          \* Argparser.options
    usage,            \* Argparser.usage
    description,      \* Argparser.description
    epilog,           \* Argparser.epilog
    stopAtNonOption,  \* Argparser.stopAtNonOption
    argc,             \* Argparser.argc: arguments left to read
    argv,             \* Argparser.argv: the cell being read
    out,              \* Argparser.out: the cell the output starts at
    cpidx,            \* Argparser.cpidx: positionals copied so far
    vec,              \* the memory holding the caller's vector
    alloc,            \* the cells of vec the caller owns: 0 .. alloc-1
    dest,             \* the destinations the option table points to
    pc,               \* "idle", "loop", "tail" (loop left), "exited"
    outcome,          \* how the process ended, "running" until then
    ret,              \* what the last Argparser_parse returned, -1 if none
    ncalls,           \* calls of Argparser_parse so far
    log,              \* this call's destination writes and callbacks
    consumed,         \* this call's cells read as option, value or `--`
    scanned,          \* this call's positionals copied in the loop
    moved,            \* this call's tail tokens relocated by the memmove
    oob,              \* a write went outside the caller's vector
    prev,             \* what the call before this one returned
    comparable,       \* a call returned and the configuration is still its
    brk               \* how and at which cell this call's loop was left

parser == <<initialized, valid, options, usage, description, epilog,
           stopAtNonOption, argc, argv, out, cpidx>>
caller == <<profile, cmdline, vec, alloc, dest>>
ghost == <<log, consumed, scanned, moved, oob, prev, comparable, brk>>
vars == <<parser, caller, pc, outcome, ret, ncalls, ghost>>

\* The loop has not been left by a break.
NoBreak == [how |-> "none", cell |-> 0]

\* What a call left behind, for the next call to be compared with.
NoPrev == [ret |-> -1, list |-> <<>>, dest |-> <<>>]

\* ------------------------------------------------------------ C strings
\* s[i-1] in C: the character, or the terminating '\0' one past the end.
CharAt(s, i) == IF i <= Len(s) THEN s[i] ELSE NUL

\* A bug StrNCmpEq could have: strcmp in place of strncmp.
StrCmpEq(s, name) == s = name

\* strncmp(s, name, strlen(name)) == 0
StrNCmpEq(s, name) ==
    /\ Len(s) >= Len(name)
    /\ SubSeq(s, 1, Len(name)) = name

\* The cells [0, n) of the vector as a list: what the caller reads back.
OutList(v, n) == [k \in 1..n |-> v[k - 1]]

\* The tokens of cmdline whose cell is not in the set c, in order.
RECURSIVE Unconsumed(_, _, _)
Unconsumed(line, c, k) ==
    IF k > Len(line) THEN <<>>
    ELSE (IF k \in c THEN <<>> ELSE <<line[k]>>) \o Unconsumed(line, c, k + 1)

\* ------------------------------------------------------------- C library
RECURSIVE Pow2(_)
Pow2(n) == IF n = 0 THEN 1 ELSE 2 * Pow2(n - 1)

\* <limits.h>: the range of long.
LONG_MAX == Pow2(LongBits - 1) - 1
LONG_MIN == -Pow2(LongBits - 1)

\* The conversion of a long to int of `*(int *)option->value = strtol(...)`:
\* the value is reduced modulo 2^IntBits into the range of int.
ToInt(x) == ((x + Pow2(IntBits - 1)) % Pow2(IntBits)) - Pow2(IntBits - 1)

\* The value of a character as a digit, 99 when it is none.
LowerDigits == <<"0","1","2","3","4","5","6","7","8","9","a","b","c","d","e","f">>
UpperDigits == <<"0","1","2","3","4","5","6","7","8","9","A","B","C","D","E","F">>
DigitValue(ch) ==
    IF \E k \in 1..16 : LowerDigits[k] = ch
    THEN (CHOOSE k \in 1..16 : LowerDigits[k] = ch) - 1
    ELSE IF \E k \in 1..16 : UpperDigits[k] = ch
    THEN (CHOOSE k \in 1..16 : UpperDigits[k] = ch) - 1
    ELSE 99

\* The first index of s from i on that holds no white space.
RECURSIVE SkipSpace(_, _)
SkipSpace(s, i) == IF CharAt(s, i) = " " THEN SkipSpace(s, i + 1) ELSE i

\* The digits of s from index i on in the given base, added to acc; the
\* magnitude is clamped at limit, and over tells that it was.
RECURSIVE Accumulate(_, _, _, _, _, _)
Accumulate(s, i, base, limit, acc, over) ==
    IF DigitValue(CharAt(s, i)) >= base
    THEN [val |-> acc, end |-> i, over |-> over]
    ELSE IF over \/ acc * base + DigitValue(CharAt(s, i)) > limit
    THEN Accumulate(s, i + 1, base, limit, limit, TRUE)
    ELSE Accumulate(s, i + 1, base, limit,
                    acc * base + DigitValue(CharAt(s, i)), FALSE)

\* strtol(s, &end, 0): white space, a sign, the base from the prefix (0x:
\* 16, 0: 8, else 10), the digits.  end is the index of the first character
\* not consumed (1 when there is no digit at all); erange tells that errno
\* was set to ERANGE, the result then being LONG_MAX or LONG_MIN.
StrtolResult(neg, i2, r) ==
    IF r.end = i2 THEN [val |-> 0, end |-> 1, erange |-> FALSE]
    ELSE [val |-> IF neg THEN -r.val ELSE r.val, end |-> r.end,
          erange |-> r.over]
StrtolDigits(s, neg, i2, base) ==
    StrtolResult(neg, i2,
                 Accumulate(s, i2, base, IF neg THEN -LONG_MIN ELSE LONG_MAX,
                            0, FALSE))
StrtolBase(s, neg, i1, hex) ==
    StrtolDigits(s, neg, IF hex THEN i1 + 2 ELSE i1,
                 IF hex THEN 16 ELSE IF CharAt(s, i1) = "0" THEN 8 ELSE 10)
StrtolPrefix(s, neg, i1) ==
    StrtolBase(s, neg, i1,
               /\ CharAt(s, i1) = "0"
               /\ CharAt(s, i1 + 1) \in {"x", "X"}
               /\ DigitValue(CharAt(s, i1 + 2)) < 16)
StrtolSign(s, i0) ==
    StrtolPrefix(s, CharAt(s, i0) = "-",
                 IF CharAt(s, i0) \in {"+", "-"} THEN i0 + 1 ELSE i0)
strtol(s) == StrtolSign(s, SkipSpace(s, 1))

\* The decimal digits of s from index i on, added to acc; n counts them.
RECURSIVE DecimalScan(_, _, _, _)
DecimalScan(s, i, acc, n) ==
    IF DigitValue(CharAt(s, i)) >= 10 THEN [val |-> acc, end |-> i, n |-> n]
    ELSE DecimalScan(s, i + 1, acc * 10 + DigitValue(CharAt(s, i)), n + 1)

\* The float 0.0; a float is mant * 10^exp.
FloatZero == [mant |-> 0, exp |-> 0]

\* strtof(s, &end) for a decimal literal: white space, a sign, digits, and
\* after a `.` more digits.  The literals of the command lines are short, so
\* that the result is exact and errno stays 0; exponents, hexadecimal
\* literals, infinities and NaNs are not covered.
StrtofResult(neg, a, b) ==
    IF a.n + b.n = 0 THEN [val |-> FloatZero, end |-> 1, erange |-> FALSE]
    ELSE [val |-> [mant |-> IF neg THEN -b.val ELSE b.val, exp |-> -b.n],
          end |-> b.end, erange |-> FALSE]
StrtofFraction(s, neg, a) ==
    StrtofResult(neg, a,
                 IF CharAt(s, a.end) = "."
                 THEN DecimalScan(s, a.end + 1, a.val, 0)
                 ELSE [val |-> a.val, end |-> a.end, n |-> 0])
StrtofSign(s, i0) ==
    StrtofFraction(s, CharAt(s, i0) = "-",
                   DecimalScan(s, IF CharAt(s, i0) \in {"+", "-"}
                                  THEN i0 + 1 ELSE i0, 0, 0))
strtof(s) == StrtofSign(s, SkipSpace(s, 1))

\* ------------------------------------------------------- value converter
\* The events a parse call logs, in the order the code performs them: a
\* write of a destination, a callback, the reason Argparser_exitDueToError
\* prints.
Written(i, v) == [kind |-> "write", opt |-> i, val |-> v]
Called(i) == [kind |-> "call", opt |-> i, val |-> 0]
Raised(i, why) == [kind |-> why, opt |-> i, val |-> 0]

\* The outcomes of a conversion: a value stored and no error, an error
\* without a store, or (INTEGER, FLOAT) a value stored and then an error.
Stored(v) == [store |-> TRUE, val |-> v, exit |-> "none", why |-> ""]
Refused(why) == [store |-> FALSE, val |-> 0, exit |-> "invalid", why |-> why]
StoredThenRefused(v, why) ==
    [store |-> TRUE, val |-> v, exit |-> "invalid", why |-> why]

\* A bug Convert could have: every BOOLEAN text other than `0` taken as true.
ConvertTruthy(type, optvalue) ==
    IF type = ARGPARSER_TYPE_BOOLEAN
    THEN IF optvalue # Null /\ Len(optvalue) = 1 /\ optvalue[1] = "0"
         THEN Stored(0)
         ELSE Stored(1)
    ELSE IF type = ARGPARSER_TYPE_STRING /\ optvalue # Null
    THEN Stored(optvalue)
    ELSE Refused("requires a value")

\* A bug CheckedNumber could have: the `s[0] != '\0'` test left out, so that
\* the number at the start of the text is accepted whatever follows it.
CheckedNumberNoTrailing(optvalue, r, v, expects) ==
    IF r.erange THEN StoredThenRefused(v, "Numerical result out of range")
    ELSE Stored(v)

\* The tests after strtol and strtof, on the result r whose number was
\* stored as v: errno, then the character the end pointer is at.
CheckedNumber(optvalue, r, v, expects) ==
    IF r.erange THEN StoredThenRefused(v, "Numerical result out of range")
    ELSE IF CharAt(optvalue, r.end) # NUL THEN StoredThenRefused(v, expects)
    ELSE Stored(v)

\* The INTEGER and FLOAT cases once the text is there: the number is stored
\* before it is checked.
ConvertInteger(optvalue, r) ==
    CheckedNumber(optvalue, r, ToInt(r.val), "expects an integer value")
ConvertFloat(optvalue, r) ==
    CheckedNumber(optvalue, r, r.val, "expects a numerical value")

\* The switch of Argparser_parseValue for an option with a destination:
\* what is stored (if anything), how the conversion ends and the reason
\* printed.
Convert(type, optvalue) ==
    CASE type = ARGPARSER_TYPE_BOOLEAN ->
           IF optvalue # Null
           THEN IF Len(optvalue) = 1 /\ optvalue[1] = "1"
                THEN Stored(1)
                ELSE IF Len(optvalue) = 1 /\ optvalue[1] = "0"
                THEN Stored(0)
                ELSE Refused("expects no value, 0, or 1")
           ELSE Stored(1)
      [] type = ARGPARSER_TYPE_STRING ->
           IF optvalue # Null
           THEN Stored(optvalue)
           ELSE Refused("requires a value")
      [] type = ARGPARSER_TYPE_INTEGER ->
           IF optvalue # Null /\ Len(optvalue) > 0
           THEN ConvertInteger(optvalue, strtol(optvalue))
           ELSE Refused("requires a value")
      [] type = ARGPARSER_TYPE_FLOAT ->
           IF optvalue # Null /\ Len(optvalue) > 0
           THEN ConvertFloat(optvalue, strtof(optvalue))
           ELSE Refused("requires a value")
      [] type \in {ARGPARSER_TYPE_END, ARGPARSER_TYPE_GROUP} ->
           [store |-> FALSE, val |-> 0, exit |-> "abort", why |-> ""]

\* The conversion of Argparser_parseValue applied to the scan state st: the
\* store if any, then the exit and its reason if any.
Converted(i, option, c, st) ==
    LET s1 == IF c.store
              THEN [st EXCEPT !.dest = [@ EXCEPT ![option.value] = c.val],
                              !.log = Append(@, Written(i, c.val))]
              ELSE st
    IN  IF c.exit = "invalid"
        THEN [s1 EXCEPT !.exit = c.exit, !.log = Append(@, Raised(i, c.why))]
        ELSE [s1 EXCEPT !.exit = c.exit]

\* A bug Argparser_parseValue could have: the callback run although the
\* conversion has reported InvalidValue.
RunCallbackOnError(option, i, st) ==
    IF st.exit \notin {"none", "invalid"} THEN st
    ELSE IF option.callback = NoCallback THEN st
    ELSE IF option.callback = Argparser_exitForHelp
    THEN [st EXCEPT !.log = Append(@, Called(i)), !.exit = "help"]
    ELSE [st EXCEPT !.log = Append(@, Called(i))]

\* The end of Argparser_parseValue: `if (option->callback)`, the call.  The
\* help callback prints the usage and calls exit(0).
RunCallback(option, i, st) ==
    IF st.exit # "none" THEN st
    ELSE IF option.callback = NoCallback THEN st
    ELSE IF option.callback = Argparser_exitForHelp
    THEN [st EXCEPT !.log = Append(@, Called(i)), !.exit = "help"]
    ELSE [st EXCEPT !.log = Append(@, Called(i))]

\* A bug Argparser_parseValue could have: the callback run only inside the
\* `if (option->value)` block, so never for an option without destination.
Argparser_parseValueCallbackInside(opts, i, optvalue, st) ==
    IF opts[i].value = NoValue THEN st
    ELSE RunCallback(opts[i], i,
                     Converted(i, opts[i], Convert(opts[i].type, optvalue), st))

\* A bug Argparser_parseValue could have: the value text checked against the
\* option's kind also when there is no destination to store it in.
Argparser_parseValueAlwaysConvert(opts, i, optvalue, st) ==
    RunCallback(opts[i], i,
                Converted(i, opts[i],
                          [Convert(opts[i].type, optvalue) EXCEPT
                              !.store = (@ /\ opts[i].value # NoValue)],
                          st))

\* Argparser_parseValue on the scan state st = [argc, argv, dest, log, found,
\* exit]: convert into the destination if there is one, then run the callback.
\* Once st.exit is not "none" the process has ended and nothing more happens.
Argparser_parseValue(opts, i, optvalue, st) ==
    RunCallback(opts[i], i,
                Converted(i, opts[i],
                          IF opts[i].value # NoValue
                          THEN Convert(opts[i].type, optvalue)
                          ELSE [store |-> FALSE, val |-> 0, exit |-> "none",
                                why |-> ""],
                          st))

\* ---------------------------------------------------- short-option matcher
\* A bug ShortSingleScan could have: the next cell taken as the value without
\* the tests that a token remains (argc > 1) and that the cell is not NULL.
RECURSIVE ShortSingleScanNoCount(_, _, _, _)
ShortSingleScanNoCount(opts, v, i, st) ==
    IF st.exit # "none" \/ opts[i].type = ARGPARSER_TYPE_END THEN st
    ELSE IF /\ opts[i].shortName # NUL
            /\ opts[i].shortName = CharAt(v[st.argv], 2)
    THEN IF CharAt(v[st.argv + 1], 1) # "-"
         THEN LET s1 == Argparser_parseValue(opts, i, v[st.argv + 1], st)
              IN  IF s1.exit # "none" THEN s1
                  ELSE ShortSingleScanNoCount(opts, v, i + 1,
                           [s1 EXCEPT !.argv = @ + 1, !.argc = @ - 1,
                                      !.found = TRUE])
         ELSE LET s1 == Argparser_parseValue(opts, i, Null, st)
              IN  IF s1.exit # "none" THEN s1
                  ELSE ShortSingleScanNoCount(opts, v, i + 1,
                                              [s1 EXCEPT !.found = TRUE])
    ELSE ShortSingleScanNoCount(opts, v, i + 1, st)

\* The table scan of the strlen(arg) == 2 branch, from entry i on.  The code
\* compares with self->argv[0] anew at every entry, also after argv moved.
RECURSIVE ShortSingleScan(_, _, _, _)
ShortSingleScan(opts, v, i, st) ==
    IF st.exit # "none" \/ opts[i].type = ARGPARSER_TYPE_END THEN st
    ELSE IF /\ opts[i].shortName # NUL
            /\ opts[i].shortName = CharAt(v[st.argv], 2)
    THEN IF /\ st.argc > 1
            /\ v[st.argv + 1] # Null
            /\ CharAt(v[st.argv + 1], 1) # "-"
         THEN LET s1 == Argparser_parseValue(opts, i, v[st.argv + 1], st)
              IN  IF s1.exit # "none" THEN s1
                  ELSE ShortSingleScan(opts, v, i + 1,
                           [s1 EXCEPT !.argv = @ + 1, !.argc = @ - 1,
                                      !.found = TRUE])
         ELSE LET s1 == Argparser_parseValue(opts, i, Null, st)
              IN  IF s1.exit # "none" THEN s1
                  ELSE ShortSingleScan(opts, v, i + 1,
                                       [s1 EXCEPT !.found = TRUE])
    ELSE ShortSingleScan(opts, v, i + 1, st)

\* The inner loop of the compound branch: every entry named ch, from i on.
RECURSIVE CompoundEntryScan(_, _, _, _)
CompoundEntryScan(opts, ch, i, st) ==
    IF st.exit # "none" \/ opts[i].type = ARGPARSER_TYPE_END THEN st
    ELSE IF opts[i].shortName = ch
    THEN LET s1 == Argparser_parseValue(opts, i, Null, st)
         IN  IF s1.exit # "none" THEN s1
             ELSE CompoundEntryScan(opts, ch, i + 1, [s1 EXCEPT !.found = TRUE])
    ELSE CompoundEntryScan(opts, ch, i + 1, st)

\* A bug CompoundCharScan could have: only the first character of the
\* compound token looked at.
CompoundCharScanFirstOnly(opts, arg, k, st) ==
    IF st.exit # "none" \/ k > Len(arg) THEN st
    ELSE LET s1 == CompoundEntryScan(opts, arg[k], 1, [st EXCEPT !.found = FALSE])
         IN  IF s1.exit = "none" /\ ~s1.found
             THEN [s1 EXCEPT !.exit = "unknown"]
             ELSE s1

\* A bug CompoundCharScan could have: a character that matches no entry
\* reported only after the characters behind it were processed.
RECURSIVE CompoundCharScanLateError(_, _, _, _)
CompoundCharScanLateError(opts, arg, k, st) ==
    IF st.exit # "none" \/ k > Len(arg) THEN st
    ELSE LET s1 == CompoundEntryScan(opts, arg[k], 1, [st EXCEPT !.found = FALSE])
             s2 == CompoundCharScanLateError(opts, arg, k + 1, s1)
         IN  IF s1.exit # "none" THEN s1
             ELSE IF ~s1.found /\ s2.exit = "none"
             THEN [s2 EXCEPT !.exit = "unknown"]
             ELSE s2

\* The outer loop of the compound branch: the characters of arg from k on.
RECURSIVE CompoundCharScan(_, _, _, _)
CompoundCharScan(opts, arg, k, st) ==
    IF st.exit # "none" \/ k > Len(arg) THEN st
    ELSE LET s1 == CompoundEntryScan(opts, arg[k], 1, [st EXCEPT !.found = FALSE])
         IN  IF s1.exit # "none" THEN s1
             ELSE IF ~s1.found THEN [s1 EXCEPT !.exit = "unknown"]
             ELSE CompoundCharScan(opts, arg, k + 1, s1)

\* A bug Argparser_parseShortOption could have: the final `if (!foundOption)`
\* left out, so that an unmatched `-x` is skipped.
Argparser_parseShortOptionNoCheck(opts, v, st) ==
    IF Len(v[st.argv]) = 2
    THEN ShortSingleScan(opts, v, 1, [st EXCEPT !.found = FALSE])
    ELSE CompoundCharScan(opts, v[st.argv], 2, [st EXCEPT !.found = FALSE])

Argparser_parseShortOption(opts, v, st) ==
    LET arg == v[st.argv]
        s0 == [st EXCEPT !.found = FALSE]
        s1 == IF Len(arg) = 2
              THEN ShortSingleScan(opts, v, 1, s0)
              ELSE CompoundCharScan(opts, arg, 2, s0)
    IN  IF s1.exit = "none" /\ ~s1.found
        THEN [s1 EXCEPT !.exit = "unknown"]
        ELSE s1

\* ----------------------------------------------------- long-option matcher
RECURSIVE LongScan(_, _, _, _)
LongScan(opts, arg, i, st) ==
    IF st.exit # "none" \/ opts[i].type = ARGPARSER_TYPE_END THEN st
    ELSE IF opts[i].longName = Null \/ Len(opts[i].longName) < 1
    THEN LongScan(opts, arg, i + 1, st)
    ELSE LET nameLength == Len(opts[i].longName)
             name == SubSeq(arg, 3, Len(arg))
             rest == SubSeq(arg, 3 + nameLength, Len(arg))
         IN  IF ~StrNCmpEq(name, opts[i].longName)
             THEN LongScan(opts, arg, i + 1, st)
             ELSE IF CharAt(rest, 1) = "="
             THEN LET s1 == Argparser_parseValue(opts, i, Tail(rest), st)
                  IN  IF s1.exit # "none" THEN s1
                      ELSE LongScan(opts, arg, i + 1, [s1 EXCEPT !.found = TRUE])
             ELSE IF opts[i].type = ARGPARSER_TYPE_BOOLEAN
             THEN LET s1 == Argparser_parseValue(opts, i, Null, st)
                  IN  IF s1.exit # "none" THEN s1
                      ELSE LongScan(opts, arg, i + 1, [s1 EXCEPT !.found = TRUE])
             ELSE LongScan(opts, arg, i + 1, st)

Argparser_parseLongOption(opts, v, st) ==
    LET s1 == LongScan(opts, v[st.argv], 1, [st EXCEPT !.found = FALSE])
    IN  IF s1.exit = "none" /\ ~s1.found
        THEN [s1 EXCEPT !.exit = "unknown"]
        ELSE s1

\* ------------------------------------------------------------------ caller
\* The vector a caller hands to Argparser_parse: argv[0], the tokens and, as
\* in main's argv, a null pointer at argv[argc]; the memory after it is not
\* the caller's.
FreshVec(line) ==
    [k \in 0..MemTop |->
        IF k = 0 THEN Prog
        ELSE IF k <= Len(line) THEN line[k]
        ELSE IF k = Len(line) + 1 THEN Null
        ELSE Junk]

\* bud's chooseInput(argc, argv): standard input, or the file *argv names.
chooseInput(n, v) == IF n <= 0 THEN <<"stdin">> ELSE v[0]

\* The state after Argparser_new(): malloc'ed memory, its content (the valid
\* flag included) indeterminate.
InitP(p) ==
    /\ profile = p
    /\ cmdline = <<>>
    /\ initialized = FALSE
    /\ valid \in BOOLEAN
    /\ options = <<ARGPARSER_OPT_END>>
    /\ usage = Junk /\ description = Junk /\ epilog = Junk
    /\ stopAtNonOption = FALSE
    /\ argc = 0 /\ argv = 0 /\ out = 0 /\ cpidx = 0
    /\ vec = FreshVec(cmdline)
    /\ alloc = Len(cmdline) + 2
    /\ dest = [d \in DestsOf(p) |-> ZeroOf(p, d)]
    /\ pc = "idle" /\ outcome = "running" /\ ret = -1 /\ ncalls = 0
    /\ log = <<>> /\ consumed = {} /\ scanned = 0 /\ moved = 0
    /\ oob = FALSE /\ prev = NoPrev /\ comparable = FALSE /\ brk = NoBreak

Init == InitP("bud")

\* The process ends: exit(0), exit(1), a failed assert, or a crash.
Exit(how) ==
    /\ pc' = "exited"
    /\ outcome' = how

\* The status the process ends with: exit(0) in Argparser_exitForHelp,
\* exit(1) in Argparser_exitDueToUnknownOption and Argparser_exitDueToError,
\* SIGABRT (134) for a failed assert, SIGSEGV (139) for a crash.
ExitStatus(how) ==
    CASE how = "help" -> 0
      [] how \in {"unknown", "invalid"} -> 1
      [] how = "abort" -> 134
      [] how = "ub" -> 139

\* ------------------------------------------------------------- lifecycle
Argparser_init(t) ==
    /\ pc = "idle"
    /\ initialized' = TRUE
    /\ valid' = TRUE
    /\ options' = t
    /\ usage' = Null /\ description' = Null /\ epilog' = Null
    /\ stopAtNonOption' = FALSE
    /\ argc' = 0 /\ argv' = 0 /\ out' = 0 /\ cpidx' = 0
    /\ comparable' = FALSE
    /\ UNCHANGED <<caller, pc, outcome, ret, ncalls, log, consumed, scanned,
                   moved, oob, prev, brk>>

\* self->valid = false; on a handle that is not valid the call changes
\* nothing, which is a stuttering step.
Argparser_clear ==
    /\ pc = "idle"
    /\ valid
    /\ valid' = FALSE
    /\ UNCHANGED <<initialized, options, usage, description, epilog,
                   stopAtNonOption, argc, argv, out,
                   cpidx, caller, pc, outcome, ret, ncalls, ghost>>

Argparser_setStopAtNonOption(stop) ==
    /\ pc = "idle"
    /\ IF ~valid
       THEN /\ Exit("abort")
            /\ UNCHANGED <<parser, caller, ret, ncalls, ghost>>
       ELSE /\ stopAtNonOption' = stop
            /\ comparable' = (comparable /\ stop = stopAtNonOption)
            /\ UNCHANGED <<initialized, valid, options, usage, description,
                           epilog, argc, argv, out, cpidx,
                           caller, pc, outcome, ret, ncalls, log, consumed,
                           scanned, moved, oob, prev, brk>>

\* The three setters of the help texts: assert(self->valid), then the
\* assignment of the field.
Argparser_setUsage(text) ==
    /\ pc = "idle"
    /\ IF ~valid
       THEN /\ Exit("abort")
            /\ UNCHANGED <<parser, caller, ret, ncalls, ghost>>
       ELSE /\ usage' = text
            /\ UNCHANGED <<initialized, valid, options, description, epilog,
                           stopAtNonOption, argc, argv, out, cpidx, caller,
                           pc, outcome, ret, ncalls, ghost>>

Argparser_setDescription(text) ==
    /\ pc = "idle"
    /\ IF ~valid
       THEN /\ Exit("abort")
            /\ UNCHANGED <<parser, caller, ret, ncalls, ghost>>
       ELSE /\ description' = text
            /\ UNCHANGED <<initialized, valid, options, usage, epilog,
                           stopAtNonOption, argc, argv, out, cpidx, caller,
                           pc, outcome, ret, ncalls, ghost>>

Argparser_setEpilog(text) ==
    /\ pc = "idle"
    /\ IF ~valid
       THEN /\ Exit("abort")
            /\ UNCHANGED <<parser, caller, ret, ncalls, ghost>>
       ELSE /\ epilog' = text
            /\ UNCHANGED <<initialized, valid, options, usage, description,
                           stopAtNonOption, argc, argv, out, cpidx, caller,
                           pc, outcome, ret, ncalls, ghost>>

\* The texts a caller hands to the setters.
Texts == {<<"t","e","x","t">>}

\* ------------------------------------------------------- Argparser_parse
\* The entry of Argparser_parse, called with a fresh copy of the command
\* line `line` (the same line at every call of a run): the assert and the
\* three assignments.  cpidx is not assigned.
ParseBegin(line) ==
    /\ pc = "idle"
    /\ ncalls < MaxParses
    /\ ncalls' = ncalls + 1
    /\ IF ~valid
       THEN /\ Exit("abort")
            /\ UNCHANGED <<parser, caller, ret, ghost>>
       ELSE IF ~initialized
       THEN /\ Exit("ub")
            /\ UNCHANGED <<parser, caller, ret, ghost>>
       ELSE /\ cmdline' = line
            /\ alloc' = Len(line) + 2
            /\ argc' = (Len(line) + 1) - 1
            /\ argv' = 1
            /\ out' = 0
            /\ vec' = FreshVec(line)
            /\ pc' = "loop"
            /\ ret' = -1
            /\ log' = <<>> /\ consumed' = {} /\ scanned' = 0 /\ moved' = 0
            /\ brk' = NoBreak
            /\ prev' = IF comparable
                       THEN [ret |-> ret, list |-> OutList(vec, ret), dest |-> dest]
                       ELSE NoPrev
            /\ UNCHANGED <<initialized, valid, options, usage, description,
                           epilog, stopAtNonOption, cpidx,
                           profile, dest, outcome, oob, comparable>>

\* The command lines a call may be given: any at the first call of a run, a
\* fresh copy of the same line at the later ones.
CommandLines ==
    IF ncalls = 0 THEN Vectors(TokensOf(profile)) ELSE {cmdline}

\* arg[0] != '-' || !arg[1]
IsPlain(arg) == CharAt(arg, 1) # "-" \/ CharAt(arg, 2) = NUL

InLoop == pc = "loop" /\ argc # 0

\* The scan state the matchers work on.
ScanState == [argc |-> argc, argv |-> argv, dest |-> dest, log |-> log,
              found |-> FALSE, exit |-> "none"]

\* A PLAIN token while stopAtNonOption is off: copied to out[cpidx++].
ParsePlain ==
    /\ InLoop
    /\ IsPlain(vec[argv])
    /\ ~stopAtNonOption
    /\ \/ /\ vec' = [vec EXCEPT ![out + cpidx] = vec[argv]]
          /\ cpidx' = cpidx + 1
          /\ argc' = argc - 1
          /\ argv' = argv + 1
          /\ scanned' = scanned + 1
          /\ oob' = (oob \/ out + cpidx >= alloc)
          /\ UNCHANGED <<initialized, valid, options, usage, description,
                         epilog, stopAtNonOption, out,
                         profile, cmdline, alloc, dest, pc, outcome, ret,
                         ncalls, log, consumed, moved, prev, comparable, brk>>
       \/ /\ out + cpidx >= alloc
          /\ Exit("ub")
          /\ UNCHANGED <<parser, caller, ret, ncalls, ghost>>

\* A PLAIN token while stopAtNonOption is on: the loop is left.
ParseStop ==
    /\ InLoop
    /\ IsPlain(vec[argv])
    /\ stopAtNonOption
    /\ pc' = "tail"
    /\ brk' = [how |-> "stop", cell |-> argv]
    /\ UNCHANGED <<parser, caller, outcome, ret, ncalls, log, consumed,
                   scanned, moved, oob, prev, comparable>>

\* What a matcher's result r does to the loop: the process ended, or the
\* loop's step (argc--, argv++) follows the tokens the matcher consumed.
AfterMatch(r) ==
    /\ dest' = r.dest
    /\ log' = r.log
    /\ IF r.exit # "none"
       THEN /\ Exit(r.exit)
            /\ UNCHANGED <<parser, profile, cmdline, vec, alloc, ret, ncalls,
                           consumed, scanned, moved, oob, prev, comparable,
                           brk>>
       ELSE /\ argc' = r.argc - 1
            /\ argv' = r.argv + 1
            /\ consumed' = consumed \cup (argv .. r.argv)
            /\ UNCHANGED <<initialized, valid, options, usage, description,
                           epilog, stopAtNonOption, out,
                           cpidx, profile, cmdline, vec, alloc, pc, outcome,
                           ret, ncalls, scanned, moved, oob, prev, comparable,
                           brk>>

ParseShort ==
    /\ InLoop
    /\ ~IsPlain(vec[argv])
    /\ CharAt(vec[argv], 2) # "-"
    /\ AfterMatch(Argparser_parseShortOption(options, vec, ScanState))

ParseLong ==
    /\ InLoop
    /\ ~IsPlain(vec[argv])
    /\ CharAt(vec[argv], 2) = "-"
    /\ CharAt(vec[argv], 3) # NUL
    /\ AfterMatch(Argparser_parseLongOption(options, vec, ScanState))

\* The token `--`: consumed, and the loop is left.
ParseTerminator ==
    /\ InLoop
    /\ ~IsPlain(vec[argv])
    /\ CharAt(vec[argv], 2) = "-"
    /\ CharAt(vec[argv], 3) = NUL
    /\ argc' = argc - 1
    /\ argv' = argv + 1
    /\ consumed' = consumed \cup {argv}
    /\ pc' = "tail"
    /\ brk' = [how |-> "term", cell |-> argv]
    /\ UNCHANGED <<initialized, valid, options, usage, description,
                   epilog, stopAtNonOption, out, cpidx,
                   caller, outcome, ret, ncalls, log, scanned, moved, oob,
                   prev, comparable>>

\* memmove(out + cpidx, argv, argc cells), then out[cpidx + argc] = NULL.
Relocate(v, to, from, n) ==
    [k \in 0..MemTop |->
        IF k = to + n THEN Null
        ELSE IF k >= to /\ k < to + n THEN v[from + (k - to)]
        ELSE v[k]]

\* After the loop: the tail is relocated, the sentinel written, the count
\* returned.
ParseFinish ==
    /\ \/ pc = "loop" /\ argc = 0
       \/ pc = "tail"
    /\ \/ /\ argc >= 0
          /\ vec' = Relocate(vec, out + cpidx, argv, argc)
          /\ ret' = cpidx + argc
          /\ moved' = argc
          /\ oob' = (oob \/ out + cpidx + argc >= alloc)
          /\ pc' = "idle"
          /\ comparable' = TRUE
          /\ UNCHANGED <<parser, profile, cmdline, alloc, dest, outcome,
                         ncalls, log, consumed, scanned, prev, brk>>
       \/ /\ argc < 0 \/ out + cpidx + argc >= alloc
          /\ Exit("ub")
          /\ UNCHANGED <<parser, caller, ret, ncalls, ghost>>

Next ==
    \/ \E t \in TablesOf(profile) : Argparser_init(t)
    \/ Argparser_clear
    \/ \E stop \in BOOLEAN : Argparser_setStopAtNonOption(stop)
    \/ \E line \in CommandLines : ParseBegin(line)
    \/ ParsePlain
    \/ ParseStop
    \/ ParseShort
    \/ ParseLong
    \/ ParseTerminator
    \/ ParseFinish

Spec == Init /\ [][Next]_vars

\* The library with the setters of the help texts, which do not bear on what
\* Argparser_parse does.
NextLife ==
    \/ Next
    \/ \E text \in Texts : Argparser_setUsage(text)
    \/ \E text \in Texts : Argparser_setDescription(text)
    \/ \E text \in Texts : Argparser_setEpilog(text)

SpecLife == InitP("life") /\ [][NextLife]_vars

\* The library under the tables and command lines of the other profiles.
SpecFlags == InitP("flags") /\ [][Next]_vars
SpecInteger == InitP("integer") /\ [][Next]_vars
SpecValue == InitP("value") /\ [][Next]_vars
SpecLong == InitP("long") /\ [][Next]_vars
SpecCallback == InitP("callback") /\ [][Next]_vars

\* ------------------------------------------------------------ type invariant
TypeOK ==
    /\ valid \in BOOLEAN /\ initialized \in BOOLEAN
    /\ stopAtNonOption \in BOOLEAN
    /\ pc \in {"idle", "loop", "tail", "exited"}
    /\ outcome \in {"running", "help", "unknown", "invalid", "abort", "ub"}
    /\ (pc = "exited") = (outcome # "running")
    /\ ncalls \in 0..MaxParses
    /\ ret \in -1..MemTop

\* ---------------------------------------------------------------- claims
\* Argparser_parse has returned to its caller.
Returned == pc = "idle" /\ ret >= 0

\* The call that returned began with cpidx = 0: the first one after an
\* Argparser_init.
FreshReturn == Returned /\ comparable /\ cpidx = scanned

\* What the caller reads back: the cells [0, ret).
Positionals == OutList(vec, ret)

\* The tokens of the command line that the call did not consume as an
\* option, an option value or `--`.
Expected == Unconsumed(cmdline, consumed, 1)

\* A token that is not option-like.
NoOptionLike(line) == \A k \in 1..Len(line) : IsPlain(line[k])

\* C1: whenever Argparser_parse has returned, the cells [0, ret) hold exactly
\* the input tokens that were not consumed as an option, an option value or
\* `--`, in their input order.
C1_StablePartition == Returned => Positionals = Expected

\* C1 for the first call after Argparser_init, where it holds.
C1_FreshPartition == FreshReturn => Positionals = Expected

\* C2: whenever Argparser_parse has returned n, n is the number of positionals
\* copied in the loop plus the number of tail tokens relocated, cell n holds
\* the null sentinel, and the cells [0, n) hold the positionals, so that the
\* file bud's chooseInput opens is the first positional.
C2_CountAndSentinel ==
    Returned =>
        /\ ret = scanned + moved
        /\ vec[ret] = Null
        /\ \A k \in 1..ret : Positionals[k] = Expected[k]
        /\ ret > 0 => chooseInput(ret, vec) = Expected[1]

\* C2 for the first call after Argparser_init, where it holds.
C2_FreshCountAndSentinel ==
    FreshReturn =>
        /\ ret = scanned + moved
        /\ ret = Len(Expected)
        /\ vec[ret] = Null
        /\ \A k \in 1..ret : Positionals[k] = Expected[k]
        /\ ret > 0 => chooseInput(ret, vec) = Expected[1]

\* C3: whenever Argparser_parse has returned for a command line without any
\* option-like token, the count is the number of tokens and the cells hold
\* them in their input order.
C3_NoOptionsIdentity ==
    (Returned /\ NoOptionLike(cmdline)) =>
        /\ ret = Len(cmdline)
        /\ Positionals = cmdline

\* C3 for the first call after Argparser_init, where it holds.
C3_FreshNoOptionsIdentity ==
    (FreshReturn /\ NoOptionLike(cmdline)) =>
        /\ ret = Len(cmdline)
        /\ Positionals = cmdline

\* The tokens of the command line from cell k on.
From(k) == SubSeq(cmdline, k, Len(cmdline))

\* The tokens of the command line before cell k that were not consumed.
Before(k) == Unconsumed(SubSeq(cmdline, 1, k - 1), consumed, 1)

\* C4: whenever Argparser_parse has returned after its loop met a token `--`,
\* that token is not returned, the tokens after it are returned as
\* positionals in order after the positionals met before it, and no token
\* after it was consumed as an option.
C4_Terminator ==
    (Returned /\ brk.how = "term") =>
        /\ Positionals = Before(brk.cell) \o From(brk.cell + 1)
        /\ consumed \subseteq 1..brk.cell

\* C4 for the first call after Argparser_init, where it holds.
C4_FreshTerminator ==
    (FreshReturn /\ brk.how = "term") =>
        /\ cmdline[brk.cell] = TTerm
        /\ Positionals = Before(brk.cell) \o From(brk.cell + 1)
        /\ consumed \subseteq 1..brk.cell

\* After `--`, until the call returns, nothing is written, no callback runs
\* and the process does not end with UnknownOption, InvalidValue or help.
C4_NothingAfterTerminator ==
    [][(pc = "tail" /\ brk.how = "term") =>
          /\ dest' = dest
          /\ log' = log
          /\ outcome' \in {"running", "ub"}]_vars

\* C5 (enabled): whenever Argparser_parse has returned after its loop met a
\* PLAIN token with stopAtNonOption on, the cells hold that token and all the
\* tokens after it in order, and none of them was consumed as an option.
C5_StopAtNonOption ==
    (Returned /\ brk.how = "stop") =>
        /\ Positionals = From(brk.cell)
        /\ consumed \subseteq 1..(brk.cell - 1)

\* C5 for the first call after Argparser_init, where it holds.
C5_FreshStopAtNonOption ==
    (FreshReturn /\ brk.how = "stop") =>
        /\ IsPlain(cmdline[brk.cell])
        /\ consumed = 1..(brk.cell - 1)
        /\ Positionals = From(brk.cell)
        /\ consumed \subseteq 1..(brk.cell - 1)

\* C6: whenever Argparser_parse has returned for the second time in a row
\* under one configuration, each time with a fresh copy of the same command
\* line, the destinations, the count and the positionals are those of the
\* call before.
C6_Idempotent ==
    (Returned /\ comparable /\ prev.ret >= 0) =>
        /\ dest = prev.dest
        /\ ret = prev.ret
        /\ Positionals = prev.list

\* The part of C6 that holds: the destinations are those of the call before.
C6_SameDestinations ==
    (Returned /\ comparable /\ prev.ret >= 0) => dest = prev.dest

\* The token the loop is about to classify, and the one after it (Null
\* when it is the last).
Reading(tok) == InLoop /\ vec[argv] = tok
NextToken == IF argc > 1 THEN vec[argv + 1] ELSE Null

\* A two-character short token whose character names no entry of the table.
UnknownShort(tok, opts) ==
    /\ Len(tok) = 2 /\ tok[1] = "-" /\ tok[2] # "-"
    /\ \A i \in 1..Len(opts) : opts[i].shortName # tok[2]

\* The process ended with UnknownOption: a non-zero status, no return.
EndedUnknown ==
    /\ pc' = "exited" /\ outcome' = "unknown"
    /\ ExitStatus(outcome') # 0
    /\ ret' = -1

\* C7: whenever the parse loop reads a two-character short token whose
\* character matches no short name of the table, the process ends with
\* UnknownOption: the token is neither skipped nor copied to the output.
C7_UnknownShortExits ==
    [][(InLoop /\ UnknownShort(vec[argv], options)) => EndedUnknown]_vars

\* C7 witness: the process ended with UnknownOption at the token `-z`.
C7_Witness ==
    /\ outcome = "unknown"
    /\ vec[argv] = TShortZ
    /\ log = <<>>

\* The table holds the help option, the command line a help token.
HelpWired(opts) == \E i \in 1..Len(opts) : opts[i] = ARGPARSER_OPT_HELP
IsHelpToken(tok) == tok \in {TShortH, THelp}
HasHelpToken(line) == \E k \in 1..Len(line) : IsHelpToken(line[k])
NoWrites(l) == \A k \in 1..Len(l) : l[k].kind # "write"

\* C8 as claimed: in a run of a parser with the help option wired whose
\* command line holds `-h` or `--help` anywhere, parse does not return, the
\* process does not end with UnknownOption or InvalidValue, and no
\* destination is written.
C8_HelpAnywhere ==
    (ncalls >= 1 /\ HelpWired(options) /\ HasHelpToken(cmdline)
        /\ outcome \notin {"abort", "ub"}) =>
        /\ ~Returned
        /\ outcome \in {"running", "help"}
        /\ NoWrites(log)

\* C8 as amended: whenever the parse loop reads `-h` or `--help` with the
\* help option wired, the process ends with HelpRequested (status 0) and
\* that step writes no destination; what earlier tokens wrote stays written.
C8_HelpWhenReached ==
    [][(InLoop /\ IsHelpToken(vec[argv]) /\ HelpWired(options)) =>
          /\ pc' = "exited" /\ outcome' = "help"
          /\ ExitStatus(outcome') = 0
          /\ dest' = dest
          /\ NoWrites(SubSeq(log', Len(log) + 1, Len(log')))]_vars

\* C8 witness: help was reached after an earlier option wrote its
\* destination.
C8_Witness ==
    /\ outcome = "help"
    /\ IsHelpToken(vec[argv])
    /\ dest["colorOutput"] = 1
    /\ ~NoWrites(log)

\* The step neither ends the process nor leaves colorOutput other than v.
StoresColor(v) ==
    /\ pc' = "loop" /\ outcome' = "running"
    /\ dest'["colorOutput"] = v

\* C9 as claimed: for a command line that is one of `-c`, `--color`, `-c=1`,
\* `--color=1`, the process does not end in an error and parse returns with
\* colorOutput true.
C9_AllFourForms ==
    (ncalls >= 1 /\ cmdline \in {<<TShortC>>, <<TColor>>, <<TShortCEq1>>,
                                 <<TColorEq1>>}
        /\ outcome \notin {"abort", "ub"}) =>
        /\ outcome = "running"
        /\ Returned => dest["colorOutput"] = 1

\* C9 as amended: reading `--color` or `--color=1`, or `-c` when the next
\* token is absent or starts with `-`, sets colorOutput to true and the loop
\* goes on; reading `-c=1` sets colorOutput to true for the `c` and then ends
\* the process with UnknownOption for the `=`.
C9_ThreeFormsAndCompound ==
    [][/\ (Reading(TColor) \/ Reading(TColorEq1)) => StoresColor(1)
       /\ (Reading(TShortC) /\ (NextToken = Null \/ NextToken[1] = "-"))
              => StoresColor(1)
       /\ Reading(TShortCEq1) =>
              /\ EndedUnknown
              /\ dest'["colorOutput"] = 1]_vars

\* C9 witness: `-c=1` alone ended the process with UnknownOption after
\* colorOutput was set.
C9_Witness ==
    /\ cmdline = <<TShortCEq1>>
    /\ outcome = "unknown"
    /\ dest["colorOutput"] = 1
    /\ log = <<Written(2, 1)>>

\* The process ended with InvalidValue and nothing was stored.
EndedInvalid ==
    /\ pc' = "exited" /\ outcome' = "invalid"
    /\ ExitStatus(outcome') # 0
    /\ ret' = -1
    /\ dest' = dest

\* C10: for the BOOLEAN option color bound to colorOutput, the attached value
\* `1` stores true and `0` stores false (`--color=0`, `-c 0`, the value token
\* being consumed), and any other attached text (`--color=m`, `-c` followed
\* by a file name) ends the process with InvalidValue.
C10_BooleanValues ==
    [][/\ Reading(TColorEq1) => StoresColor(1)
       /\ Reading(TColorEq0) => StoresColor(0)
       /\ (Reading(TShortC) /\ NextToken = TZero) =>
              /\ StoresColor(0)
              /\ argv' = argv + 2 /\ argc' = argc - 2
       /\ Reading(TColorEqM) => EndedInvalid
       /\ (Reading(TShortC) /\ NextToken = TFile) => EndedInvalid]_vars

\* C10 witness: `-c` followed by a file name ended the process with
\* InvalidValue.
C10_Witness ==
    /\ outcome = "invalid"
    /\ vec[argv] = TShortC
    /\ argc > 1 /\ vec[argv + 1] = TFile

\* The step goes on with the loop.
GoesOn == pc' = "loop" /\ outcome' = "running"

\* The step read one token: the cursor is at the next one, which was not
\* looked at.
ReadOneToken ==
    /\ argv' = argv + 1 /\ argc' = argc - 1
    /\ consumed' = consumed \cup {argv}
    /\ vec' = vec /\ cpidx' = cpidx

\* C11: whenever the parse loop reads the compound token `-ci`, c and i both
\* being BOOLEAN entries, both destinations are set to true and exactly one
\* token is consumed: the cursor moves to the token that follows, whatever
\* it is, and that token is not taken as a value.
C11_CompoundSetsBoth ==
    [][Reading(TShortCI) =>
          /\ GoesOn
          /\ dest'["colorOutput"] = 1 /\ dest'["inverse"] = 1
          /\ log' = log \o <<Written(2, 1), Written(3, 1)>>
          /\ ReadOneToken]_vars

\* C11 witness: `-ci` was read with the value-like token `0` behind it, which
\* the loop is about to classify on its own.
C11_Witness ==
    /\ InLoop /\ argv >= 2
    /\ vec[argv - 1] = TShortCI /\ vec[argv] = TZero
    /\ dest["colorOutput"] = 1 /\ dest["inverse"] = 1
    /\ consumed = {argv - 1}

\* The last event the call logged.
LastEvent(l) == l[Len(l)]

\* The process ended with InvalidValue for entry i, for the reason why.
EndedInvalidFor(i, why) ==
    /\ pc' = "exited" /\ outcome' = "invalid"
    /\ ExitStatus(outcome') = 1
    /\ ret' = -1
    /\ Len(log') > 0 /\ LastEvent(log') = Raised(i, why)

\* C12: for the INTEGER option num bound to a destination, the value `12abc`
\* ends the process with InvalidValue (trailing character), an empty value
\* (`--num=`) or an absent one (`-n` with no value token behind it) ends it
\* with InvalidValue "requires a value" and nothing stored, and the value
\* `12` (`--num=12`, `-n 12`) stores exactly 12 and the loop goes on.
C12_IntegerValues ==
    [][/\ Reading(TNumEq12abc) =>
              EndedInvalidFor(1, "expects an integer value")
       /\ Reading(TNumEqNone) =>
              /\ EndedInvalidFor(1, "requires a value")
              /\ dest' = dest
       /\ (Reading(TShortN) /\ (NextToken = Null \/ NextToken[1] = "-")) =>
              /\ EndedInvalidFor(1, "requires a value")
              /\ dest' = dest
       /\ Reading(TNumEq12) =>
              /\ GoesOn /\ dest'["num"] = 12
              /\ ReadOneToken
       /\ (Reading(TShortN) /\ NextToken = TTwelve) =>
              /\ GoesOn /\ dest'["num"] = 12
              /\ argv' = argv + 2 /\ argc' = argc - 2]_vars

\* C12 witness: `--num=12abc` ended the process with InvalidValue after an
\* earlier `-n 12` had stored 12.
C12_Witness ==
    /\ outcome = "invalid"
    /\ vec[argv] = TNumEq12abc
    /\ LastEvent(log) = Raised(1, "expects an integer value")
    /\ argv = 3 /\ vec[1] = TShortN /\ vec[2] = TTwelve

\* The number the decimal numeral of an integer token denotes.
NumberText(tok) ==
    IF StrNCmpEq(tok, SubSeq(TNumEqNone, 1, 6))
    THEN SubSeq(tok, 7, Len(tok))
    ELSE tok
Denoted(tok) == DecimalScan(NumberText(tok), 1, 0, 0).val

\* C13: as long as the process has not ended, the destination of the INTEGER
\* option num holds 0 or the number that a numeral of the command line
\* denotes: never a wrapped or truncated value.
C13_NoWrappedValue ==
    (ncalls >= 1 /\ outcome = "running") =>
        \/ dest["num"] = 0
        \/ \E k \in 1..Len(cmdline) : dest["num"] = Denoted(cmdline[k])

\* The part of C13 that holds: a numeral outside the range of long ends the
\* process with InvalidValue, strtol having set errno to ERANGE.
C13_LongRangeChecked ==
    [][Reading(TNumEq99999) =>
          EndedInvalidFor(1, "Numerical result out of range")]_vars

\* C20: whenever the parse loop reads the compound token `-czi`, z matching
\* no entry, the process ends with UnknownOption; the flag of c, the
\* character before z, has been set, and nothing else was written or called:
\* i, the character after z, is not processed.
C20_CompoundStopsAtUnknown ==
    [][Reading(TShortCZI) =>
          /\ EndedUnknown
          /\ dest' = [dest EXCEPT !["colorOutput"] = 1]
          /\ log' = Append(log, Written(2, 1))]_vars

\* C20 witness: `-czi` ended the process with UnknownOption, c set and i not.
C20_Witness ==
    /\ outcome = "unknown"
    /\ vec[argv] = TShortCZI
    /\ dest["colorOutput"] = 1 /\ dest["inverse"] = 0
    /\ log = <<Written(2, 1)>>

\* The step is a call of a setter or of Argparser_parse.
Configuring ==
    \/ \E text \in Texts : Argparser_setUsage(text)
    \/ \E text \in Texts : Argparser_setDescription(text)
    \/ \E text \in Texts : Argparser_setEpilog(text)
    \/ \E stop \in BOOLEAN : Argparser_setStopAtNonOption(stop)
    \/ \E line \in CommandLines : ParseBegin(line)

\* The call failed its assert: the process aborted, the parser state and the
\* caller's vector and variables are as they were.
FailedFast ==
    /\ pc' = "exited" /\ outcome' = "abort"
    /\ UNCHANGED <<parser, caller>>

\* The call was accepted: the process goes on.
Accepted == outcome' = "running" /\ pc' \in {"idle", "loop"}

\* C14: every call of a setter or of Argparser_parse on a handle that is not
\* both initialized and valid (created and not yet initialized, or
\* invalidated by Argparser_clear) aborts without changing the state or the
\* vector, and every such call on an initialized, valid handle is accepted.
C14_FailFast ==
    [][/\ (~(initialized /\ valid) /\ Configuring) => FailedFast
       /\ (initialized /\ valid /\ Configuring) => Accepted]_vars

\* The part of C14 that holds: the calls abort whenever the valid flag reads
\* false, which it does after Argparser_clear, and are accepted after
\* Argparser_init, also on a handle that was invalidated before.
C14_InvalidatedFailsFast ==
    [][/\ (~valid /\ Configuring) => FailedFast
       /\ (initialized /\ valid /\ Configuring) => Accepted]_vars

\* A handle that was invalidated and initialized again accepts the calls.
C14_ReinitializedAccepts ==
    [][(pc = "idle" /\ initialized /\ ~valid /\ initialized' /\ valid') =>
          /\ usage' = Null /\ description' = Null /\ epilog' = Null
          /\ stopAtNonOption' = FALSE /\ cpidx' = 0
          /\ ENABLED Configuring]_vars

\* A two-character short token, and the entries its character names, in
\* table order.
IsShort2(tok) == Len(tok) = 2 /\ tok[1] = "-" /\ tok[2] # "-"
MatchingEntries(opts, x) ==
    SelectSeq([i \in 1..Len(opts) |-> i], LAMBDA i : opts[i].shortName = x)

\* The token behind the one being read can be taken as a value.
ValueFollows == NextToken # Null /\ NextToken[1] # "-"

\* The entries the step invoked the value converter for, in order (every
\* entry of the table has a destination, so that each invocation logs).
Invoked == [k \in 1..(Len(log') - Len(log)) |-> log'[Len(log) + k].opt]

\* C15: whenever the parse loop reads a two-character short token that
\* matches an entry, then if a token follows that does not start with `-`,
\* that token is the value converted (the STRING destination holds it), and
\* unless the process ends the cursor moves by two cells, both consumed;
\* otherwise the converter gets an absent value (STRING: InvalidValue
\* "requires a value", BOOLEAN: true) and the cursor moves by one cell.
C15_ValueTokenConsumed ==
    [][(InLoop /\ IsShort2(vec[argv])
            /\ MatchingEntries(options, vec[argv][2]) # <<>>) =>
          IF ValueFollows
          THEN /\ vec[argv] = TShortS => dest'["str"] = NextToken
               /\ GoesOn =>
                    /\ argv' = argv + 2 /\ argc' = argc - 2
                    /\ consumed' = consumed \cup {argv, argv + 1}
          ELSE /\ vec[argv] = TShortS =>
                    EndedInvalidFor(1, "requires a value")
               /\ vec[argv] = TShortI =>
                    /\ GoesOn /\ dest'["inverse"] = 1
                    /\ ReadOneToken]_vars

\* The second character of the value token names an entry of the table
\* behind entry i.
ValueNamesLaterEntry(opts, val, i) ==
    \E j \in (i + 1)..Len(opts) :
        opts[j].shortName # NUL /\ opts[j].shortName = CharAt(val, 2)

\* The part of C15 that holds: the same, for a value token whose second
\* character names no entry behind the matched one.
C15_WhenValueNamesNoEntry ==
    [][(InLoop /\ IsShort2(vec[argv])
            /\ MatchingEntries(options, vec[argv][2]) # <<>>
            /\ ValueFollows
            /\ ~ValueNamesLaterEntry(options, NextToken,
                    Head(MatchingEntries(options, vec[argv][2])))) =>
          /\ vec[argv] = TShortS => dest'["str"] = NextToken
          /\ GoesOn =>
               /\ argv' = argv + 2 /\ argc' = argc - 2
               /\ consumed' = consumed \cup {argv, argv + 1}]_vars

\* C16: whenever the parse loop reads a two-character short token `-x`, the
\* value converter is invoked for the entries whose short name is x, each
\* once and in table order (for the first of them only up to the one whose
\* conversion ends the process), and for no other entry.
C16_ExactlyMatchingEntries ==
    [][(InLoop /\ IsShort2(vec[argv])) =>
          LET m == MatchingEntries(options, vec[argv][2])
          IN  IF outcome' = "running"
              THEN Invoked = m
              ELSE /\ Len(Invoked) <= Len(m)
                   /\ Invoked = SubSeq(m, 1, Len(Invoked))]_vars

\* The part of C16 that holds: when no value token follows `-x`, the entries
\* named x, and only they, are invoked in table order.
C16_WhenNoValueFollows ==
    [][(InLoop /\ IsShort2(vec[argv]) /\ ~ValueFollows) =>
          LET m == MatchingEntries(options, vec[argv][2])
          IN  IF outcome' = "running"
              THEN Invoked = m
              ELSE /\ Len(Invoked) <= Len(m)
                   /\ Invoked = SubSeq(m, 1, Len(Invoked))]_vars

\* A long-option token, and its text behind the `--`.
IsLongToken(tok) ==
    Len(tok) > 2 /\ tok[1] = "-" /\ tok[2] = "-"
LongText(tok) == SubSeq(tok, 3, Len(tok))

\* The text of the token is the long name, followed by the end of the token
\* or by `=`.
ExactFor(tok, name) ==
    /\ name # Null
    /\ StrNCmpEq(LongText(tok), name)
    /\ CharAt(LongText(tok), Len(name) + 1) \in {NUL, "="}

\* The step neither wrote a destination nor logged anything.
NothingDone == dest' = dest /\ Len(log') = Len(log)

\* C17: whenever the parse loop reads a long-option token, every entry the
\* value converter is invoked for has a long name that the token's text
\* equals or continues with `=`; and when the text does so for no entry
\* (`--colorful`), the process ends with UnknownOption, nothing written.
C17_ExactNameOnly ==
    [][(InLoop /\ IsLongToken(vec[argv])) =>
          /\ \A k \in 1..Len(Invoked) :
                 ExactFor(vec[argv], options[Invoked[k]].longName)
          /\ (\A i \in 1..Len(options) :
                  ~ExactFor(vec[argv], options[i].longName)) =>
                 /\ EndedUnknown
                 /\ NothingDone]_vars

\* What the code does with `--colorful`: it is taken for `--color`.
C17_PrefixTakenForName ==
    [][Reading(TColorful) =>
          /\ GoesOn /\ ReadOneToken
          /\ dest' = [dest EXCEPT !["color"] = 1]
          /\ Invoked = <<1>>]_vars

\* The part of C18 that holds: `--num` and `--ratio`, the long names of an
\* INTEGER and of a FLOAT entry that no BOOLEAN long name is a prefix of,
\* end the process with UnknownOption, nothing written or called; with
\* `--colormap=a=b` the STRING destination holds `a=b`, the text behind the
\* first `=`, and with `--ratio=1.5` the FLOAT destination holds 1.5.
C18_ValuelessNeedsBoolean ==
    [][/\ (Reading(TNum) \/ Reading(TRatio)) =>
              /\ EndedUnknown
              /\ NothingDone
       /\ Reading(TColormapEqAB) =>
              /\ GoesOn
              /\ dest'["colormap"] = <<"a", "=", "b">>
       /\ Reading(TRatioEq15) =>
              /\ GoesOn /\ ReadOneToken
              /\ dest' = [dest EXCEPT !["ratio"] = [mant |-> 15, exp |-> -1]]
              /\ Invoked = <<5>>]_vars

\* C18: whenever the parse loop reads `--num`, `--ratio` or `--colormap`, a
\* token without `=` whose text is the long name of an INTEGER, a FLOAT or a
\* STRING entry and of no BOOLEAN entry, the process ends with
\* UnknownOption, no destination written and nothing called; and with
\* `--colormap=a=b` the value converted is `a=b`.
C18_ValuelessNonBoolean ==
    [][/\ (Reading(TNum) \/ Reading(TRatio) \/ Reading(TColormap)) =>
              /\ EndedUnknown
              /\ NothingDone
       /\ Reading(TColormapEqAB) =>
              /\ GoesOn
              /\ dest'["colormap"] = <<"a", "=", "b">>]_vars

\* C19: whenever the parse loop reads a long-option token and goes on, the
\* value converter was invoked for exactly one entry: one destination
\* written per long-option token.
C19_OneDispatchPerToken ==
    [][(InLoop /\ IsLongToken(vec[argv]) /\ GoesOn) =>
          Len(Invoked) = 1]_vars

\* What the code does with `--colors`: every entry whose long name the text
\* begins with is dispatched, color and colors both.
C19_EveryMatchDispatched ==
    [][Reading(TColors) =>
          /\ GoesOn /\ ReadOneToken
          /\ dest' = [dest EXCEPT !["color"] = 1, !["colors"] = 1]
          /\ Invoked = <<1, 2>>]_vars

\* The events the step logged: the writes, calls and errors of the value
\* converter, in the order they happened.
NewEvents == SubSeq(log', Len(log) + 1, Len(log'))
HasDest(i) == options[i].value # NoValue
HasCallback(i) == options[i].callback # NoCallback

\* C21: in every step of the parse loop, a callback is invoked only for an
\* entry that has one and, if the entry has a destination, right after the
\* write of that destination; every write of an entry with a callback is
\* followed at once by that entry's callback or by the InvalidValue of that
\* entry; an InvalidValue is the last thing that happens, so no callback
\* follows it.  `--num=12` writes 12 and calls the callback of num once,
\* `-v` not followed by a value writes true and calls the callback of
\* verbose once, `--num=12abc` ends with InvalidValue and no callback.
C21_WriteThenCallbackOnce ==
    [][InLoop =>
          /\ \A k \in 1..Len(NewEvents) :
                /\ NewEvents[k].kind = "call" =>
                      /\ HasCallback(NewEvents[k].opt)
                      /\ HasDest(NewEvents[k].opt) =>
                            /\ k > 1
                            /\ NewEvents[k - 1].kind = "write"
                            /\ NewEvents[k - 1].opt = NewEvents[k].opt
                            /\ dest'[options[NewEvents[k].opt].value]
                                   = NewEvents[k - 1].val
                /\ (NewEvents[k].kind = "write" /\ HasCallback(NewEvents[k].opt)) =>
                      /\ k < Len(NewEvents)
                      /\ NewEvents[k + 1].opt = NewEvents[k].opt
                      /\ NewEvents[k + 1].kind # "write"
                /\ NewEvents[k].kind \notin {"write", "call"} =>
                      /\ k = Len(NewEvents)
                      /\ pc' = "exited" /\ outcome' = "invalid"
          /\ Reading(TNumEq12) =>
                /\ GoesOn
                /\ NewEvents = <<Written(3, 12), Called(3)>>
          /\ (Reading(TShortV) /\ (NextToken = Null \/ NextToken[1] = "-")) =>
                /\ GoesOn
                /\ NewEvents = <<Written(2, 1), Called(2)>>
          /\ Reading(TNumEq12abc) =>
                /\ EndedInvalidFor(3, "expects an integer value")
                /\ \A k \in 1..Len(NewEvents) : NewEvents[k].kind # "call"]_vars

\* C21 witness: `-v` wrote true and called the callback of verbose, then
\* `--num=12abc` ended the process with InvalidValue and without a callback.
C21_Witness ==
    /\ outcome = "invalid"
    /\ options = CallbackTable
    /\ argv = 2 /\ vec[1] = TShortV /\ vec[2] = TNumEq12abc
    /\ log = <<Written(2, 1), Called(2), Written(3, 12),
               Raised(3, "expects an integer value")>>

\* The step copied a positional to the output slot out[cpidx].
WrotePositional == InLoop /\ cpidx' = cpidx + 1
\* The step relocated the tail and returned.
RelocatedTail == pc \in {"loop", "tail"} /\ pc' = "idle"
\* The cells from the one being read on are as they were.
UnreadKept == \A k \in argv..MemTop : vec'[k] = vec[k]

\* C22: in every call of Argparser_parse, whenever a positional is written
\* to the output slot k = out + cpidx, k is strictly below the index of the
\* token being read and no cell from that token on is changed, and the final
\* relocation of the tail never moves tokens to a higher index.
C22_WritesTrailReads ==
    [][/\ WrotePositional =>
              /\ out + cpidx < argv
              /\ vec' = [vec EXCEPT ![out + cpidx] = vec[argv]]
              /\ UnreadKept
       /\ RelocatedTail => out + cpidx <= argv]_vars

\* What holds of the code: the same in a call that began with cpidx = 0, as
\* the first call after Argparser_init does.
C22_FreshWritesTrailReads ==
    [][/\ (WrotePositional /\ cpidx = scanned) =>
              /\ out + cpidx < argv
              /\ vec' = [vec EXCEPT ![out + cpidx] = vec[argv]]
              /\ UnreadKept
       /\ (RelocatedTail /\ cpidx = scanned) => out + cpidx <= argv]_vars

\* C23: in a call of Argparser_parse that began with cpidx = 0 (a freshly
\* initialized parser) on a vector of count argc = Len(cmdline) + 1 >= 1,
\* the remaining count stays within 0..argc-1 throughout, the read cursor
\* never passes index argc and is always argc minus the remaining count,
\* and on return the count returned is within 0..argc-1 with the null
\* sentinel at that index, inside the original vector.
C23_CountWithinBounds ==
    /\ (pc \in {"loop", "tail"} /\ cpidx = scanned) =>
          /\ argc \in 0..Len(cmdline)
          /\ argv \in 1..(Len(cmdline) + 1)
          /\ argv + argc = Len(cmdline) + 1
          /\ cpidx + argc <= Len(cmdline)
    /\ FreshReturn =>
          /\ ret \in 0..Len(cmdline)
          /\ ret < alloc - 1
          /\ vec[ret] = Null

\* C23 witness: the first call on `-s ai` returned 0 after `-s` consumed its
\* value token, which was the last one: the count went from 2 to 0.
C23_Witness ==
    /\ FreshReturn /\ ncalls = 1
    /\ cmdline = <<TShortS, TAi>>
    /\ consumed = {1, 2}
    /\ argc = 0 /\ argv = 3
    /\ ret = 0 /\ vec[0] = Null

\* The step ended the process in the help callback: usage printed, exit(0).
EndedHelp ==
    /\ pc' = "exited" /\ outcome' = "help"
    /\ ExitStatus(outcome') = 0
    /\ ret' = -1

\* C24: for an entry without destination the value converter converts
\* nothing and raises no InvalidValue, it only runs the callback: in every
\* step of the parse loop the only event of such an entry is its callback;
\* `--help=g` and `-h`, whatever follows it (`file` included), end in the
\* help callback with nothing written; for the INTEGER entry count (k) that
\* has a callback and no destination, `--count=abc` and `-k` without a value
\* call the callback once and the loop goes on one token further, and
\* `-k file` calls it once and consumes `file` as well.
C24_CallbackOnlyNeverInvalid ==
    [][InLoop =>
          /\ \A k \in 1..Len(NewEvents) :
                ~HasDest(NewEvents[k].opt) =>
                    /\ NewEvents[k] = Called(NewEvents[k].opt)
                    /\ outcome' # "invalid"
          /\ (Reading(THelpEqG) \/ Reading(TShortH)) =>
                /\ EndedHelp
                /\ NewEvents = <<Called(1)>>
                /\ dest' = dest
          /\ Reading(TCountEqAbc) =>
                /\ GoesOn /\ ReadOneToken
                /\ NewEvents = <<Called(4)>>
                /\ dest' = dest
          /\ (Reading(TShortK) /\ (NextToken = Null \/ NextToken[1] = "-")) =>
                /\ GoesOn /\ ReadOneToken
                /\ NewEvents = <<Called(4)>>
                /\ dest' = dest
          /\ (Reading(TShortK) /\ NextToken = TFile) =>
                /\ GoesOn
                /\ NewEvents = <<Called(4)>>
                /\ dest' = dest
                /\ argv' = argv + 2 /\ argc' = argc - 2
                /\ consumed' = consumed \cup {argv, argv + 1}]_vars

\* C24 witness: `-k file` called the callback of count and consumed `file`,
\* then `--help=g` ended the process in the help callback.
C24_Witness ==
    /\ outcome = "help"
    /\ options = CallbackTable
    /\ cmdline = <<TShortK, TFile, THelpEqG>>
    /\ argv = 3 /\ consumed = {1, 2}
    /\ log = <<Called(4), Called(1)>>
    /\ \A d \in DOMAIN dest : dest[d] = 0

====
